---- MODULE Spec2Model ----
(***************************************************************************)
(* k-out-of-n maintenance system (app.py): the steady-state engine          *)
(* compute_uptime_fraction, the diagram draw_birth_death_graph and the      *)
(* grid optimizer find_optimal_config, as one run of the script.            *)
(*                                                                         *)
(* Python floats are modelled as exact rationals <<num, den>> in lowest     *)
(* terms with den > 0; float('inf') is the value Inf.                       *)
(***************************************************************************)
EXTENDS Integers, Sequences, FiniteSets, TLC

(* ------------------------------ bounds --------------------------------- *)
\* engine specification: sidebar n, k in 1..MaxN, r in 1..MaxR, rates a/b
MaxN == 4
MaxR == 3
MaxRateNum == 2
MaxRateDen == 2
\* program specification: unit costs in 0..MaxCost, and the quorums
\* k in 1..MaxSmallK and in (N_STOP - KSpan)..(N_STOP + 1)
MaxCost == 1
MaxSmallK == 1
KSpan == 2

(* -------------------------- program constants -------------------------- *)
\* range(k, 100) and range(1, 15): the stop values of the two scan loops
N_STOP == 100
R_STOP == 15
\* the maxima the comments next to the loops name
N_MAX_DOC == 100
R_MAX_DOC == 15

(* ------------------------- rational arithmetic ------------------------- *)
Abs(x) == IF x < 0 THEN -x ELSE x

RECURSIVE Gcd(_, _)
Gcd(a, b) == IF b = 0 THEN a ELSE Gcd(b, a % b)

Rat(a, b) ==
    LET g == Gcd(Abs(a), Abs(b))
        s == IF b < 0 THEN -1 ELSE 1
    IN  <<(s * a) \div g, (s * b) \div g>>

Zero == <<0, 1>>
One == <<1, 1>>
Inf == <<1, 0>>
None == <<>>

RatInt(i) == <<i, 1>>

RatAdd(x, y) ==
    IF x[1] = 0 THEN y
    ELSE IF y[1] = 0 THEN x
    ELSE IF x[2] = y[2] THEN Rat(x[1] + y[1], x[2])
    ELSE LET g == Gcd(x[2], y[2])
             l == (x[2] \div g) * y[2]
         IN  Rat(x[1] * (l \div x[2]) + y[1] * (l \div y[2]), l)

RatNeg(x) == <<-x[1], x[2]>>

RatSub(x, y) == RatAdd(x, RatNeg(y))

RatMul(x, y) ==
    IF x[1] = 0 \/ y[1] = 0 THEN Zero
    ELSE IF x[2] = 1 /\ y[2] = 1 THEN <<x[1] * y[1], 1>>
    ELSE LET g1 == Gcd(Abs(x[1]), y[2])
             g2 == Gcd(Abs(y[1]), x[2])
         IN  Rat((x[1] \div g1) * (y[1] \div g2), (x[2] \div g2) * (y[2] \div g1))

\* x / y for y > 0
RatDiv(x, y) == RatMul(x, <<y[2], y[1]>>)

\* x < y by continued-fraction comparison (no cross products)
RECURSIVE RatLess(_, _)
RatLess(x, y) ==
    LET qx == x[1] \div x[2]
        qy == y[1] \div y[2]
        rx == x[1] % x[2]
        ry == y[1] % y[2]
    IN  IF qx # qy THEN qx < qy
        ELSE IF ry = 0 THEN FALSE
        ELSE IF rx = 0 THEN TRUE
        ELSE RatLess(<<y[2], ry>>, <<x[2], rx>>)

RatLeq(x, y) == x = y \/ RatLess(x, y)

Min(a, b) == IF a < b THEN a ELSE b

\* f[lo] + ... + f[hi], by halves (the recursion stays shallow)
RECURSIVE SumFromTo(_, _, _)
SumFromTo(f, lo, hi) ==
    IF lo > hi THEN Zero
    ELSE IF lo = hi THEN f[lo]
    ELSE LET mid == (lo + hi) \div 2
         IN  RatAdd(SumFromTo(f, lo, mid), SumFromTo(f, mid + 1, hi))

(* ---------------------- compute_uptime_fraction ------------------------ *)
\* number of components exposed to failure in state i (the factor of
\* failure_rate in lines 28-34)
failure_mult(n, k, i, warm) ==
    IF warm THEN n - i
    ELSE IF i <= n - k THEN k ELSE 0

\* Python lists are sequences here: list[i] is seq[i + 1]
\* [e(i) for i in range(lo - 1, hi)], built by halves
RECURSIVE failure_rates_from(_, _, _, _, _, _)
failure_rates_from(n, k, failure_rate, warm, lo, hi) ==
    IF lo > hi THEN <<>>
    ELSE IF lo = hi
    THEN <<RatMul(RatInt(failure_mult(n, k, lo - 1, warm)), failure_rate)>>
    ELSE LET mid == (lo + hi) \div 2
         IN  failure_rates_from(n, k, failure_rate, warm, lo, mid)
             \o failure_rates_from(n, k, failure_rate, warm, mid + 1, hi)

failure_rates(n, k, failure_rate, warm) ==
    failure_rates_from(n, k, failure_rate, warm, 1, n)

\* every repairman busy in every state
repair_mult_all_busy(i, r) == r

\* number of repairs in progress in state i (the factor of repair_rate)
repair_mult(i, r) == Min(i, r)

RECURSIVE repair_rates_from(_, _, _, _)
repair_rates_from(r, repair_rate, lo, hi) ==
    IF lo > hi THEN <<>>
    ELSE IF lo = hi THEN <<RatMul(RatInt(repair_mult(lo, r)), repair_rate)>>
    ELSE LET mid == (lo + hi) \div 2
         IN  repair_rates_from(r, repair_rate, lo, mid)
             \o repair_rates_from(r, repair_rate, mid + 1, hi)

\* repair_rates[i - 1], here the i-th entry, is the repair rate out of state i
repair_rates(n, r, repair_rate) == repair_rates_from(r, repair_rate, 1, n)

ratio(failure, repair) ==
    IF RatLess(Zero, repair) THEN RatDiv(failure, repair) ELSE Zero

\* the entries for states lo..hi of product_terms, given the entry before
\* them: each is the one before it times ratio
RECURSIVE append_terms(_, _, _, _, _)
append_terms(fr, rr, last, lo, hi) ==
    IF lo > hi THEN <<>>
    ELSE IF lo = hi THEN <<RatMul(last, ratio(fr[lo], rr[lo]))>>
    ELSE LET mid == (lo + hi) \div 2
             left == append_terms(fr, rr, last, lo, mid)
         IN  left \o append_terms(fr, rr, left[Len(left)], mid + 1, hi)

product_terms(n, k, r, failure_rate, repair_rate, warm) ==
    <<One>> \o append_terms(failure_rates(n, k, failure_rate, warm),
                            repair_rates(n, r, repair_rate), One, 1, n)

\* the last term left out of the sum
denominator_short(terms) == SumFromTo(terms, 1, Len(terms) - 1)

denominator(terms) == SumFromTo(terms, 1, Len(terms))

\* [pi_0 * term for term in product_terms]
RECURSIVE scale_terms(_, _, _, _)
scale_terms(pi_0, terms, lo, hi) ==
    IF lo > hi THEN <<>>
    ELSE IF lo = hi THEN <<RatMul(pi_0, terms[lo])>>
    ELSE LET mid == (lo + hi) \div 2
         IN  scale_terms(pi_0, terms, lo, mid) \o scale_terms(pi_0, terms, mid + 1, hi)

stationary(n, k, r, failure_rate, repair_rate, warm) ==
    LET terms == product_terms(n, k, r, failure_rate, repair_rate, warm)
        pi_0 == RatDiv(One, denominator(terms))
    IN  scale_terms(pi_0, terms, 1, Len(terms))

\* the states past max_failures_allowed summed instead
uptime_sum_down(dist, n, k) == SumFromTo(dist, (n - k) + 2, Len(dist))

\* sum(pi[i] for i in range(max_failures_allowed + 1))
uptime_sum(dist, n, k) == SumFromTo(dist, 1, (n - k) + 1)

compute_uptime_fraction(n, k, r, failure_rate, repair_rate, warm) ==
    uptime_sum(stationary(n, k, r, failure_rate, repair_rate, warm), n, k)

(* ----------------------------- the optimizer --------------------------- *)
total_cost(n_, k_, r_, failure_rate_, repair_rate_, warm, cc, rc, dc) ==
    LET up == compute_uptime_fraction(n_, k_, r_, failure_rate_, repair_rate_, warm)
    IN  RatAdd(RatAdd(RatMul(RatInt(n_), cc), RatMul(RatInt(r_), rc)),
               RatMul(RatSub(One, up), dc))

\* cost > best_cost
improves_reversed(cost, best) == IF best = Inf THEN TRUE ELSE RatLess(best, cost)

\* cost <= best_cost
improves_or_ties(cost, best) == IF best = Inf THEN TRUE ELSE RatLeq(cost, best)

\* cost < best_cost, with best_cost possibly float('inf')
improves(cost, best) == IF best = Inf THEN TRUE ELSE RatLess(cost, best)

\* no guard
feasible_always(n_, k_) == n_ >= 1

\* the guard of the Results block
feasible(n_, k_) == n_ >= k_

\* first value of the outer loop, range(k, 100)
scan_first_n(k_) == k_

(* ------------------------------- diagram ------------------------------- *)
\* label of the failure arrow out of state i; 0 when no arrow is drawn
fail_rate(n_, k_, i, warm) ==
    IF warm THEN n_ - i
    ELSE IF i <= k_ - 1 THEN k_ ELSE 0

(* -------------------------------- state -------------------------------- *)
VARIABLES
    failure_rate, repair_rate, warm_standby, n, k, r,    \* sidebar, lines 6-12
    component_cost, repairman_cost, downtime_cost,        \* sidebar, lines 16-18
    pc,             \* position of the script
    uptime,         \* result of the call of line 59, None before it
    pi,             \* the distribution that call built
    results_out,    \* what the Results block showed
    fail_arrows,    \* failure arrows drawn, state i |-> multiplier (0: none)
    repair_arrows,  \* repair arrows drawn, state i |-> multiplier
    n_b, r_b, best_cost, best_config,   \* locals of find_optimal_config
    optimal,        \* its return value
    optimal_out,    \* what the Optimal Configuration block showed
    last_call,      \* arguments <<n, k, r>> of the latest engine invocation
    scanned         \* number of grid cells evaluated so far

inputs == <<failure_rate, repair_rate, warm_standby, n, k, r,
            component_cost, repairman_cost, downtime_cost>>
results_vars == <<uptime, pi, results_out>>
diagram_vars == <<fail_arrows, repair_arrows>>
search_vars == <<n_b, r_b, best_cost, best_config, scanned>>
vars == <<inputs, pc, results_vars, diagram_vars, search_vars,
          optimal, optimal_out, last_call>>

RatSet(maxNum, maxDen) == {Rat(a, b) : a \in 0..maxNum, b \in 1..maxDen}

Fresh ==
    /\ pc = "results"
    /\ uptime = None /\ pi = None /\ results_out = "nothing"
    /\ fail_arrows = None /\ repair_arrows = None
    /\ n_b = 0 /\ r_b = 0 /\ best_cost = Inf /\ best_config = None
    /\ scanned = 0
    /\ optimal = None /\ optimal_out = "nothing"
    /\ last_call = None

\* The scan runs the engine on chains of up to N_STOP - 1 components, and the
\* weights of such a chain stay within the integers only when its run of
\* non-zero failure rates is short. Two families of sidebar inputs do that:
\* quorums next to the end of the grid under cold standby (or without
\* failures), and small quorums, which scan the whole grid, without failures.
InitNearEnd ==
    /\ k \in (N_STOP - KSpan)..(N_STOP + 1)
    /\ failure_rate \in {Zero, One}
    /\ repair_rate \in {Zero, One}
    /\ warm_standby \in BOOLEAN
    /\ warm_standby => failure_rate = Zero
    /\ component_cost \in RatSet(MaxCost, 1)
    /\ repairman_cost \in RatSet(MaxCost, 1)
    /\ downtime_cost \in {Zero, RatInt(100 * MaxCost)}
    /\ n \in {1, 5}

InitWholeGrid ==
    /\ k \in 1..MaxSmallK
    /\ failure_rate = Zero
    /\ repair_rate = One
    /\ warm_standby = TRUE
    /\ component_cost \in {Zero, One}
    /\ repairman_cost \in {Zero, One}
    /\ downtime_cost = RatInt(100)
    /\ n = 5

Init ==
    /\ InitNearEnd \/ InitWholeGrid
    /\ r = 1
    /\ Fresh

\* the engine and the diagram alone, on small chains
InitEngine ==
    /\ failure_rate \in RatSet(MaxRateNum, MaxRateDen)
    /\ repair_rate \in RatSet(MaxRateNum, MaxRateDen)
    /\ warm_standby \in BOOLEAN
    /\ n \in 1..MaxN
    /\ k \in 1..MaxN
    /\ r \in 1..MaxR
    /\ component_cost = Zero /\ repairman_cost = Zero /\ downtime_cost = Zero
    /\ Fresh

(* ------------------------------- actions ------------------------------- *)
\* lines 58-62
ResultsCall ==
    /\ pc = "results"
    /\ feasible(n, k)
    /\ last_call' = <<n, k, r>>
    /\ pi' = stationary(n, k, r, failure_rate, repair_rate, warm_standby)
    /\ uptime' = compute_uptime_fraction(n, k, r, failure_rate, repair_rate, warm_standby)
    /\ results_out' = "uptime"
    /\ pc' = "diagram"
    /\ UNCHANGED <<inputs, diagram_vars, search_vars, optimal, optimal_out>>

\* lines 63-64
ResultsWarning ==
    /\ pc = "results"
    /\ ~feasible(n, k)
    /\ results_out' = "warning"
    /\ pc' = "diagram"
    /\ UNCHANGED <<inputs, uptime, pi, last_call, diagram_vars, search_vars,
                   optimal, optimal_out>>

\* lines 67-107
DrawDiagram ==
    /\ pc = "diagram"
    /\ fail_arrows' = [i \in 0..(n - 1) |-> fail_rate(n, k, i, warm_standby)]
    /\ repair_arrows' = [i \in 1..n |-> Min(r, i)]
    /\ pc' = "optimize"
    /\ UNCHANGED <<inputs, results_vars, search_vars, optimal, optimal_out, last_call>>

\* lines 132-136: the locals, and the first test of the outer loop
FindOptimalStart ==
    /\ pc = "optimize"
    /\ best_config' = None
    /\ best_cost' = Inf
    /\ n_b' = scan_first_n(k)
    /\ r_b' = 1
    /\ pc' = IF scan_first_n(k) < N_STOP THEN "scan" ELSE "return"
    /\ UNCHANGED <<inputs, results_vars, diagram_vars, scanned, optimal,
                   optimal_out, last_call>>

\* lines 136-142: one iteration of the inner loop, and the step to the next
ScanStep ==
    /\ pc = "scan"
    /\ LET cost == total_cost(n_b, k, r_b, failure_rate, repair_rate, warm_standby,
                              component_cost, repairman_cost, downtime_cost)
       IN  IF improves(cost, best_cost)
           THEN /\ best_cost' = cost
                /\ best_config' = <<n_b, r_b, cost>>
           ELSE UNCHANGED <<best_cost, best_config>>
    /\ last_call' = <<n_b, k, r_b>>
    /\ scanned' = scanned + 1
    /\ IF r_b + 1 < R_STOP
       THEN /\ r_b' = r_b + 1
            /\ UNCHANGED <<n_b, pc>>
       ELSE /\ r_b' = 1
            /\ n_b' = n_b + 1
            /\ pc' = IF n_b + 1 < N_STOP THEN "scan" ELSE "return"
    /\ UNCHANGED <<inputs, results_vars, diagram_vars, optimal, optimal_out>>

\* lines 144, 147-148
FindOptimalReturn ==
    /\ pc = "return"
    /\ optimal' = best_config
    /\ pc' = "display"
    /\ UNCHANGED <<inputs, results_vars, diagram_vars, search_vars, optimal_out,
                   last_call>>

\* lines 150-153
Display ==
    /\ pc = "display"
    /\ optimal_out' = IF optimal # None THEN "config" ELSE "nothing"
    /\ pc' = "done"
    /\ UNCHANGED <<inputs, results_vars, diagram_vars, search_vars, optimal,
                   last_call>>

Next ==
    \/ ResultsCall
    \/ ResultsWarning
    \/ DrawDiagram
    \/ FindOptimalStart
    \/ ScanStep
    \/ FindOptimalReturn
    \/ Display

Spec == Init /\ [][Next]_vars

NextEngine ==
    \/ ResultsCall
    \/ ResultsWarning
    \/ DrawDiagram

SpecEngine == InitEngine /\ [][NextEngine]_vars

(* ------------------------------ properties ----------------------------- *)
Positive(x) == RatLess(Zero, x)

\* state i of the distribution built by the Results call
Pi(i) == pi[i + 1]

\* the grid find_optimal_config scans, and the cost of one of its cells
Grid == {<<a, b>> : a \in k..(N_STOP - 1), b \in 1..(R_STOP - 1)}

CostOf(c) ==
    total_cost(c[1], k, c[2], failure_rate, repair_rate, warm_standby,
               component_cost, repairman_cost, downtime_cost)

\* c comes before d in the scan: smaller n, or the same n and smaller r
Before(c, d) == c[1] < d[1] \/ (c[1] = d[1] /\ c[2] < d[2])

\* C1: the configuration find_optimal_config returns is a cell of the scanned
\* grid, its cost is the total cost of that cell, and no cell of the grid has
\* a lower total cost; a non-empty grid always yields a configuration.
C1_OptimalIsMinimum ==
    pc = "done" =>
        /\ k < N_STOP => optimal # None
        /\ optimal # None =>
            /\ <<optimal[1], optimal[2]>> \in Grid
            /\ optimal[3] = CostOf(optimal)
            /\ \A c \in Grid : RatLeq(optimal[3], CostOf(c))

\* a run whose optimum is neither the first n nor the first r of the grid
C1_Witness ==
    pc = "done" /\ optimal # None /\ optimal[1] > k /\ optimal[2] > 1

\* C2: for repair rate > 0 the distribution has n + 1 entries, each >= 0,
\* summing to exactly 1, and the uptime fraction lies in [0, 1].
C2_Distribution ==
    (results_out = "uptime" /\ Positive(repair_rate)) =>
        /\ Len(pi) = n + 1
        /\ \A i \in 0..n : RatLeq(Zero, Pi(i))
        /\ SumFromTo(pi, 1, Len(pi)) = One
        /\ RatLeq(Zero, uptime) /\ RatLeq(uptime, One)

\* a chain with mass on up and down states
C2_Witness ==
    /\ results_out = "uptime" /\ Positive(repair_rate)
    /\ n > k /\ Positive(Pi(n)) /\ RatLess(uptime, One)

\* C3: with repair rate 0 and failure rate > 0 the engine call ends in a
\* DegenerateChain outcome, never in an uptime value.
C3_DegenerateChainSignalled ==
    (pc # "results" /\ feasible(n, k) /\ repair_rate = Zero /\ Positive(failure_rate))
        => results_out = "DegenerateChain"

\* C4: when the grid is empty the run ends with a NoFeasibleConfiguration
\* outcome, not with the sentinel None and nothing shown.
C4_NoFeasibleReported ==
    (pc = "done" /\ k >= N_STOP) =>
        optimal # None /\ optimal_out = "NoFeasibleConfiguration"

\* C5: the best-so-far candidate is replaced only by a strictly cheaper one,
\* and the configuration returned is the first minimum in scan order: every
\* cell scanned before it costs strictly more.
C5_FinalIsFirst ==
    (pc = "done" /\ optimal # None) =>
        \A c \in Grid : Before(c, optimal) => RatLess(optimal[3], CostOf(c))

C5_ReplaceOnlyIfLower ==
    (best_config' # best_config /\ best_config # None)
        => RatLess(best_cost', best_cost)

C5_FirstMinimumWins == [](C5_FinalIsFirst) /\ [][C5_ReplaceOnlyIfLower]_vars

\* a run where the next n ties with the returned one and was not adopted
C5_Witness ==
    /\ pc = "done" /\ optimal # None
    /\ optimal[1] + 1 < N_STOP
    /\ CostOf(<<optimal[1] + 1, optimal[2]>>) = optimal[3]

\* C6: one more repairman never lowers the uptime fraction (repair rate > 0).
C6_MonotoneInRepairmen ==
    (results_out = "uptime" /\ Positive(repair_rate)) =>
        RatLeq(uptime, compute_uptime_fraction(n, k, r + 1, failure_rate,
                                               repair_rate, warm_standby))

\* a call where one more repairman strictly raises the uptime
C6_Witness ==
    /\ results_out = "uptime" /\ Positive(repair_rate)
    /\ RatLess(uptime, compute_uptime_fraction(n, k, r + 1, failure_rate,
                                               repair_rate, warm_standby))

\* C7: the engine is never invoked with fewer components than the quorum.
C7_NeverInfeasibleCall == last_call # None => last_call[1] >= last_call[2]

\* a run that showed the warning instead of calling, and then scanned
C7_Witness == pc = "done" /\ results_out = "warning" /\ scanned > 0

\* birthRate[j] as the claim C8 states it
BirthRate(j) ==
    IF warm_standby THEN RatMul(RatInt(n - j), failure_rate)
    ELSE IF j <= n - k THEN RatMul(RatInt(k), failure_rate) ELSE Zero

\* C8: detailed balance, pi[i-1] * birthRate[i-1] = pi[i] * min(i, r) * mu
\* for every i in 1..n (repair rate > 0).
C8_DetailedBalance ==
    (results_out = "uptime" /\ Positive(repair_rate)) =>
        \A i \in 1..n :
            RatMul(Pi(i - 1), BirthRate(i - 1))
                = RatMul(Pi(i), RatMul(RatInt(Min(i, r)), repair_rate))

\* a cold-standby chain with idle repairmen in some state and flow in balance
C8_Witness ==
    /\ results_out = "uptime" /\ Positive(repair_rate) /\ Positive(failure_rate)
    /\ ~warm_standby /\ n > k /\ r > 1 /\ Positive(Pi(2))

\* C9: the scan covers every n in k..100 and r in 1..15, ending at (100, 15).
C9_GridReachesNamedMaxima ==
    (pc = "done" /\ k <= N_MAX_DOC) =>
        /\ scanned = (N_MAX_DOC - k + 1) * R_MAX_DOC
        /\ last_call = <<N_MAX_DOC, k, R_MAX_DOC>>

\* C10: for 1 <= k <= n the diagram draws a failure arrow out of state i
\* with multiplier m exactly when the engine uses the multiplier m > 0 there.
C10_DiagramMatchesEngine ==
    (pc = "optimize" /\ k <= n) =>
        \A i \in 0..(n - 1) : fail_arrows[i] = failure_mult(n, k, i, warm_standby)

====
